---------------------------- MODULE Spec2Model ----------------------------
(***************************************************************************)
(* Model of tdlm/utils.py: unique_permutations (the unique random          *)
(* permutation sampler) and insert_events (the event injector), together   *)
(* with hash_array and the shared numpy RNG stream they draw from.         *)
(*                                                                         *)
(* Arrays that the code indexes from 0 are functions on 0..n-1 (p, data)   *)
(* or sequences whose ELEMENTS are 0-based indices (the permutation rows). *)
(***************************************************************************)
EXTENDS Integers, Sequences, FiniteSets, TLC

VARIABLES
    \* ---- unique_permutations(X, k) ----
    X,          \* the input vector (sequence of values)
    kReq,       \* the k argument; None when omitted
    x,          \* canonical integer coding of X (line 104)
    nPerms,     \* number of unique permutations (lines 107-108)
    k,          \* effective number of rows (lines 112-113)
    pInds,      \* k x n matrix of permutation indices
    Perms,      \* k x n matrix of coded permutations (lines 117-129)
    PermsOut,   \* the permutations of the input that are returned (132-135)
    u,          \* number of accepted random rows
    upc,        \* position in unique_permutations
    uerr,       \* the exception unique_permutations raised, if any
    \* ---- nPerms on its own (lines 93-108) ----
    cX,         \* input vector
    count,      \* the computed nPerms, as a signed 64-bit-limbed integer
    cpc,
    \* ---- insert_events(...) ----
    arg,        \* the arguments of the call
    heap,       \* the arrays that exist, by reference
    data,       \* reference of the caller's data array
    data_sim,   \* reference of the array the events are added to
    sha1,       \* hashlib.sha1 as far as evaluated: {[content, digest]}
    rng,        \* state of the shared np.random stream: seed and draws made
    stream,     \* what the stream delivered: {[seed, pos, q, v]}
    p,          \* probability mask [num, den]; den = 0 stands for NaN entries
    i,          \* scheduling loop counter
    start_idx,  \* the start index drawn last
    replay_start_idxs,
    events,     \* the onset table, one record per template application
    idx,        \* index of the event train being inserted
    step,
    pos,
    seq_i,
    smp_jitter,
    ipc,        \* position in insert_events
    ierr,       \* the exception insert_events raised, if any
    results,    \* what the completed calls returned, in call order
    ncalls,     \* how often the caller invokes insert_events with these arguments
    elementwise_eq  \* whether the numpy build compares an array with a str element-wise

permVars  == <<X, kReq, x, nPerms, k, pInds, Perms, PermsOut, u, upc, uerr>>
countVars == <<cX, count, cpc>>
memVars   == <<heap, data, data_sim>>
rndVars   == <<rng, stream>>
schedVars == <<p, i, start_idx, replay_start_idxs>>
injVars   == <<events, idx, step, pos, seq_i, smp_jitter>>
ctlVars   == <<ipc, ierr, results>>
insVars   == <<arg, ncalls, elementwise_eq, sha1, memVars, rndVars, schedVars, injVars, ctlVars>>

None == -1

(***************************************************************************)
(* Bounds of the model.                                                    *)
(***************************************************************************)
MaxN     == 3      \* longest input vector of the sampler
MaxK     == 3      \* largest requested k
MaxRange == 21     \* longest all-distinct vector 1..n given to the counter
MaxLen      == 6   \* longest data array (time points)
MaxChannels == 2   \* most channels of data and insert_data
MaxSpan     == 3   \* longest template (last axis of insert_data)
MaxEvents   == 2   \* largest n_events
MaxLag      == 1   \* largest lag
MaxSteps    == 1   \* largest n_steps
MaxJitter   == 1   \* largest jitter
MaxCalls    == 2   \* calls of insert_events with the same arguments
MaxLenRepeat    == 3   \* longest data array when the call is repeated
MaxEventsRepeat == 1   \* largest n_events when the call is repeated

Alphabet == {1, 2}

(***************************************************************************)
(* Generic helpers.                                                        *)
(***************************************************************************)
RECURSIVE SeqSum(_)
SeqSum(s) == IF s = <<>> THEN 0 ELSE Head(s) + SeqSum(Tail(s))

RECURSIVE SortedSeqOfSet(_)
SortedSeqOfSet(S) ==
    IF S = {} THEN <<>>
    ELSE LET m == CHOOSE a \in S : \A b \in S : a <= b
         IN  <<m>> \o SortedSeqOfSet(S \ {m})

IndexOf(s, v) == CHOOSE ix \in 1..Len(s) : s[ix] = v

RECURSIVE Insert(_, _)
Insert(s, v) ==
    IF s = <<>> THEN <<v>>
    ELSE IF v <= Head(s) THEN <<v>> \o s
    ELSE <<Head(s)>> \o Insert(Tail(s), v)

RECURSIVE sorted(_)
sorted(s) == IF s = <<>> THEN <<>> ELSE Insert(sorted(Tail(s)), Head(s))

RECURSIVE factorial(_)
factorial(n) == IF n <= 1 THEN 1 ELSE n * factorial(n - 1)

SeqsUpTo(S, lo, hi) == UNION {[1..n -> S] : n \in lo..hi}

(***************************************************************************)
(* 64-bit integers as four base-2^16 limbs, least significant first, so    *)
(* that numpy's silent int64 wrap-around is kept (np.prod, line 107).      *)
(* Unbounded naturals use the same limbs without truncation.               *)
(***************************************************************************)
Base == 65536

RECURSIVE BigMulCarry(_, _, _)
BigMulCarry(a, t, carry) ==
    IF a = <<>>
    THEN IF carry = 0 THEN <<>> ELSE <<carry % Base>> \o BigMulCarry(<<>>, t, carry \div Base)
    ELSE LET v == Head(a) * t + carry
         IN  <<v % Base>> \o BigMulCarry(Tail(a), t, v \div Base)

BigMulSmall(a, t) == BigMulCarry(a, t, 0)

RECURSIVE BigAddCarry(_, _)
BigAddCarry(a, carry) ==
    IF carry = 0 THEN a
    ELSE IF a = <<>> THEN <<carry>>
    ELSE LET v == Head(a) + carry
         IN  <<v % Base>> \o BigAddCarry(Tail(a), v \div Base)

RECURSIVE BigDivRem(_, _, _)
\* quotient limbs of a \div d for a small divisor d, a given most significant
\* limb LAST; rem is the remainder carried down from the higher limbs
BigDivRem(a, d, ix) ==
    IF ix > Len(a) THEN [q |-> <<>>, r |-> 0]
    ELSE LET hi  == BigDivRem(a, d, ix + 1)
             cur == hi.r * Base + a[ix]
         IN  [q |-> <<cur \div d>> \o hi.q, r |-> cur % d]

BigDivSmall(a, d) == BigDivRem(a, d, 1).q

RECURSIVE Trim(_)
Trim(a) == IF a # <<>> /\ a[Len(a)] = 0 THEN Trim(SubSeq(a, 1, Len(a) - 1)) ELSE a

Wrap64(a) == [ix \in 1..4 |-> IF ix <= Len(a) THEN a[ix] ELSE 0]

\* the signed value of a 64-bit pattern: sign and magnitude
Int64Value(w) ==
    IF w[4] >= 32768
    THEN [neg |-> TRUE,
          mag |-> Trim(Wrap64(BigAddCarry([ix \in 1..4 |-> 65535 - w[ix]], 1)))]
    ELSE [neg |-> FALSE, mag |-> Trim(w)]

RECURSIVE BitLen(_)
BitLen(v) == IF v = 0 THEN 0 ELSE 1 + BitLen(v \div 2)

RECURSIVE Pow2(_)
Pow2(e) == IF e = 0 THEN 1 ELSE 2 * Pow2(e - 1)

\* int64 -> float64: the magnitude rounded to 53 significant bits, ties to even
Float64Mag(mag) ==
    IF Len(mag) < 4 \/ mag[4] < 32 THEN mag
    ELSE LET sh   == BitLen(mag[4]) - 5
             unit == Pow2(sh)
             r    == mag[1] % unit
             odd  == (mag[1] \div unit) % 2 = 1
             low  == [mag EXCEPT ![1] = mag[1] - r]
             up   == r * 2 > unit \/ (r * 2 = unit /\ odd)
         IN  IF up THEN BigAddCarry(low, unit) ELSE low

(***************************************************************************)
(* unique_permutations, lines 93-108: the count of unique permutations.    *)
(***************************************************************************)
\* np.unique(X): the sorted distinct values
uniques(Xv) == SortedSeqOfSet({Xv[ix] : ix \in 1..Len(Xv)})

\* return_counts: how often each of them occurs
counts(Xv) ==
    LET un == uniques(Xv)
    IN  [j \in 1..Len(un) |-> Cardinality({ix \in 1..Len(Xv) : Xv[ix] = un[j]})]

\* line 104: x = [uniques.index(ix) for ix in X]
Coding(Xv) == [ix \in 1..Len(Xv) |-> IndexOf(uniques(Xv), Xv[ix]) - 1]

RECURSIVE ProdRange64(_, _)
\* np.prod(np.arange(lo, hi + 1)) in int64: every product wraps at 64 bits
ProdRange64(lo, hi) ==
    IF lo > hi THEN <<1, 0, 0, 0>>
    ELSE Wrap64(BigMulSmall(ProdRange64(lo, hi - 1), hi))

RECURSIVE ProdFactorials(_)
\* np.prod([math.factorial(x) for x in c[:-1]])
ProdFactorials(c) ==
    IF c = <<>> THEN 1 ELSE factorial(Head(c)) * ProdFactorials(Tail(c))

\* lines 106-108.  The quotient is a float64 division followed by int().
\* With an empty divisor list the divisor is 1.0 and the result is the
\* numerator as converted to float64.  Otherwise numerator and divisor are
\* below 2^53 for every vector drawn here, where the float64 quotient
\* truncated by int() is the integer quotient.
nPermsOf(Xv) ==
    LET c   == sorted(counts(Xv))
        num == Int64Value(ProdRange64(c[Len(c)] + 1, SeqSum(c)))
        den == ProdFactorials(SubSeq(c, 1, Len(c) - 1))
    IN  IF Len(c) = 1 \/ den = 1
        THEN [neg |-> num.neg, mag |-> Trim(Float64Mag(num.mag))]
        ELSE [neg |-> num.neg, mag |-> Trim(BigDivSmall(num.mag, den))]

\* a signed limbed integer as a number (for magnitudes below 2^31)
ToInt(v) ==
    LET m == IF v.mag = <<>> THEN 0
             ELSE IF Len(v.mag) = 1 THEN v.mag[1]
             ELSE v.mag[1] + Base * v.mag[2]
    IN  IF v.neg THEN 0 - m ELSE m

\* the number of distinct orderings of a multiset, n! / (c_1! * ... * c_m!),
\* over the unbounded naturals
RECURSIVE BigFactorial(_)
BigFactorial(n) == IF n <= 1 THEN <<1>> ELSE BigMulSmall(BigFactorial(n - 1), n)

RECURSIVE DivByFactorial(_, _)
DivByFactorial(a, n) ==
    IF n <= 1 THEN a ELSE BigDivSmall(DivByFactorial(a, n - 1), n)

RECURSIVE DivByFactorials(_, _)
DivByFactorials(a, c) ==
    IF c = <<>> THEN a
    ELSE DivByFactorials(DivByFactorial(a, Head(c)), Tail(c))

Multinomial(Xv) ==
    [neg |-> FALSE,
     mag |-> Trim(DivByFactorials(BigFactorial(Len(Xv)), counts(Xv)))]

(***************************************************************************)
(* unique_permutations, lines 93-140, as a state machine.                  *)
(***************************************************************************)
Range(n) == [ix \in 1..n |-> ix]

\* np.random.permutation(n): any ordering of the indices 0..n-1
PermutationsOf(n) ==
    {q \in [1..n -> 0..(n - 1)] : \A ix, j \in 1..n : q[ix] = q[j] => ix = j}

\* fancy indexing v[pInd] with 0-based indices
Take(v, pInd) == [ix \in 1..Len(pInd) |-> v[pInd[ix] + 1]]

zeros(rows, cols) == [r \in 1..rows |-> [c \in 1..cols |-> 0]]

\* lines 112-113
EffectiveK_unclamped(kr, np) == IF kr = None THEN np ELSE kr

EffectiveK(kr, np) == IF kr = None \/ kr > np THEN np ELSE kr

\* line 126: x[pInd].tolist() not in Perms.tolist()
IsNewRow_firstOnly(row, M) == row # M[1]

IsNewRow(row, M) == \A r \in 1..Len(M) : M[r] # row

\* vectors with repeated values, and all-distinct vectors in both orders
UPVectors ==
    SeqsUpTo(Alphabet, 0, MaxN)
        \cup {Range(n) : n \in 2..MaxN}
        \cup {[ix \in 1..n |-> n + 1 - ix] : n \in 2..MaxN}

UPInputs ==
    {in \in UPVectors \X ({None} \cup 0..MaxK) :
        in[2] = None => (Len(in[1]) <= 1 \/ ToInt(nPermsOf(in[1])) <= MaxK)}

InitPerm ==
    /\ \E in \in UPInputs : X = in[1] /\ kReq = in[2]
    /\ x = <<>> /\ nPerms = 0 /\ k = 0
    /\ pInds = <<>> /\ Perms = <<>> /\ PermsOut = <<>>
    /\ u = 0 /\ upc = "start" /\ uerr = "none"

IdlePerm ==
    /\ X = <<>> /\ kReq = None /\ x = <<>> /\ nPerms = 0 /\ k = 0
    /\ pInds = <<>> /\ Perms = <<>> /\ PermsOut = <<>>
    /\ u = 0 /\ upc = "idle" /\ uerr = "none"

UPFail(e) ==
    /\ upc' = "error" /\ uerr' = e
    /\ UNCHANGED <<X, kReq, x, nPerms, k, pInds, Perms, PermsOut, u>>

\* lines 94-122: coding, count, effective k, identity row
UPSetupResult(Xv, kr) ==
    IF Len(Xv) = 0 THEN [err |-> "AssertionError"]
    ELSE IF Len(Xv) = 1 THEN [err |-> "TypeError"]    \* squeeze() leaves a 0-d array
    ELSE LET n  == Len(Xv)
             np == ToInt(nPermsOf(Xv))
             kk == EffectiveK(kr, np)
         IN  IF kk = 0
             THEN [err |-> "IndexError"]               \* pInds[0, :] of a 0-row matrix
             ELSE [err    |-> "none",
                   x      |-> Coding(Xv),
                   nPerms |-> np,
                   k      |-> kk,
                   pInds  |-> [zeros(kk, n) EXCEPT ![1] = [ix \in 1..n |-> ix - 1]],
                   Perms  |-> [zeros(kk, n) EXCEPT ![1] = Coding(Xv)]]

UPSetup ==
    /\ upc = "start"
    /\ \E r \in {UPSetupResult(X, kReq)} :
          \/ /\ r.err # "none"
             /\ UPFail(r.err)
          \/ /\ r.err = "none"
             /\ x' = r.x /\ nPerms' = r.nPerms /\ k' = r.k
             /\ pInds' = r.pInds /\ Perms' = r.Perms
             /\ u' = 0
             /\ upc' = "loop"
             /\ UNCHANGED <<X, kReq, PermsOut, uerr>>

\* lines 123-129: one iteration of the rejection loop
UPDraw ==
    /\ upc = "loop"
    /\ u < k - 1
    /\ \E pInd \in PermutationsOf(Len(X)) :
          IF IsNewRow(Take(x, pInd), Perms)
          THEN /\ u' = u + 1
               /\ pInds' = [pInds EXCEPT ![u + 2] = pInd]
               /\ Perms' = [Perms EXCEPT ![u + 2] = Take(x, pInd)]
               /\ UNCHANGED <<X, kReq, x, nPerms, k, PermsOut, upc, uerr>>
          ELSE UNCHANGED permVars

\* lines 131-140: the permutations of the input itself
UPConstruct ==
    /\ upc = "loop"
    /\ ~(u < k - 1)
    /\ PermsOut' = [r \in 1..k |-> IF r = 1 THEN X ELSE Take(X, pInds[r])]
    /\ upc' = "done"
    /\ UNCHANGED <<X, kReq, x, nPerms, k, pInds, Perms, u, uerr>>

(***************************************************************************)
(* The count of unique permutations on its own (lines 93-108).             *)
(***************************************************************************)
CountInputs ==
    SeqsUpTo(Alphabet \cup {3}, 2, MaxN)
        \cup {Range(n) : n \in 2..MaxRange}        \* uperms(1:7), uperms(1:20, ..)
        \cup {<<1, 1, 1, 2, 2, 2, 2>>}             \* uperms('aaabbbb')

InitCount == cX \in CountInputs /\ count = [neg |-> FALSE, mag |-> <<>>] /\ cpc = "start"

IdleCount == cX = <<>> /\ count = [neg |-> FALSE, mag |-> <<>>] /\ cpc = "idle"

CountPerms ==
    /\ cpc = "start"
    /\ count' = nPermsOf(cX)
    /\ cpc' = "counted"
    /\ UNCHANGED cX

(***************************************************************************)
(* hash_array (lines 14-35) and the seed derived from it (line 286).       *)
(***************************************************************************)
truncate == 8

\* sha1 is not computed; it is an arbitrary fixed function of the bytes.
\* These are the first `truncate` hex digits it may deliver (as numbers 0..15):
\* "0012345a", "da39a3ee".  The model's data are integer valued, so
\* astype(np.int64) (line 33) leaves the content as it is.
Digests == { <<0, 0, 1, 2, 3, 4, 5, 10>>, <<13, 10, 3, 9, 10, 3, 14, 14>> }

\* str(x) if x.isdigit() else str(ord(x)): 'a' -> "97", ..., 'f' -> "102"
HexCharDigits(h) ==
    IF h < 10 THEN <<h>>
    ELSE IF h < 13 THEN <<9, h - 3>>
    ELSE <<1, 0, h - 13>>

RECURSIVE JoinDigits(_)
JoinDigits(hex) ==
    IF hex = <<>> THEN <<>> ELSE HexCharDigits(Head(hex)) \o JoinDigits(Tail(hex))

RECURSIVE StripZeros(_)
StripZeros(d) ==
    IF Len(d) > 1 /\ Head(d) = 0 THEN StripZeros(Tail(d)) ELSE d

\* int(''.join(...)): the decimal digits of the seed, most significant first
SeedOf(hex) == StripZeros(JoinDigits(hex))

RECURSIVE DigitsLeq(_, _)
DigitsLeq(a, b) ==
    IF a = <<>> THEN TRUE
    ELSE IF Head(a) # Head(b) THEN Head(a) < Head(b)
    ELSE DigitsLeq(Tail(a), Tail(b))

\* np.random.seed accepts 0 .. 2**32 - 1 = 4294967295
SeedAccepted(d) ==
    \/ Len(d) < 10
    \/ Len(d) = 10 /\ DigitsLeq(d, <<4, 2, 9, 4, 9, 6, 7, 2, 9, 5>>)

\* np.random.seed(seed), line 287
Reseed_keep(r, d) == r

Reseed(r, d) == [seed |-> d, pos |-> 0]

(***************************************************************************)
(* The shared RNG stream.  A draw is a function of the seed, of the number *)
(* of draws made since seeding and of the request; beyond that it is       *)
(* arbitrary.  A request q is [f, w, off]: weights w over 0..m-1 for the   *)
(* values off..off+m-1.                                                    *)
(***************************************************************************)
Support(q) == {j + q.off : j \in {jj \in DOMAIN q.w : q.w[jj] > 0}}

Delivered(q) ==
    LET hit == {m \in stream : m.seed = rng.seed /\ m.pos = rng.pos /\ m.q = q}
    IN  IF hit # {} THEN {m.v : m \in hit} ELSE Support(q)

\* what was delivered is kept for as long as a later call can ask for it again
Drawn(q, v) ==
    /\ rng' = [rng EXCEPT !.pos = @ + 1]
    /\ stream' = IF Len(results) + 1 < ncalls
                 THEN stream \cup {[seed |-> rng.seed, pos |-> rng.pos, q |-> q, v |-> v]}
                 ELSE stream

Uniform(m, off) == [f |-> "uniform", w |-> [j \in 0..(m - 1) |-> 1], off |-> off]

Weighted(pp) == [f |-> "choice", w |-> pp.num, off |-> 0]

(***************************************************************************)
(* Arrays.                                                                 *)
(***************************************************************************)
RECURSIVE ArrSum(_, _)
ArrSum(a, n) == IF n = 0 THEN 0 ELSE a[n - 1] + ArrSum(a, n - 1)

\* a Python slice bound
PyIndex(j, n) ==
    IF j < 0 THEN (IF j + n < 0 THEN 0 ELSE j + n)
    ELSE IF j > n THEN n ELSE j

\* the rows a[start:stop] selects in an array of n rows
SliceRows(start, stop, n) ==
    {r \in 0..(n - 1) : PyIndex(start, n) <= r /\ r < PyIndex(stop, n)}

IsNaN(pp) == pp.den = 0

\* p = p / p.sum(): a zero sum leaves NaN in every entry
Normalize(num, n) == [num |-> num, den |-> ArrSum(num, n)]

\* p[rows] = 0 followed by p = p / p.sum() (lines 322-323 and 349-352)
ZeroAndNormalize(pp, rows, n) ==
    IF IsNaN(pp) THEN pp
    ELSE Normalize([r \in 0..(n - 1) |-> IF r \in rows THEN 0 ELSE pp.num[r]], n)

\* np.where(p > 0)[0], line 336
available_indices(pp) ==
    IF IsNaN(pp) THEN {} ELSE {r \in DOMAIN pp.num : pp.num[r] > 0}

\* lines 308-316: the named distributions, before the tail is cut
NamedP(name, n) ==
    Normalize([r \in 0..(n - 1) |->
                 IF name = "constant" THEN 1
                 ELSE IF name = "decreasing"
                      THEN (IF n = 1 THEN 1 ELSE (n - 1 - r) * (n - 1 - r))
                      ELSE (IF n = 1 THEN 0 ELSE r * r)], n)

\* line 321: data.shape[-1] is the number of channels
padding(a) == a.n_steps * a.lag + a.n_channels

\* line 346
end_idx(a, start) == start + a.lag * a.n_steps + a.span

\* line 347
EndAsserted_off(e, n) == TRUE

EndAsserted(e, n) == e < n

(***************************************************************************)
(* The arguments.  data is len_data x n_channels, insert_data is           *)
(* 3 x n_channels x span with every exemplar constant over channel and     *)
(* time.                                                                   *)
(***************************************************************************)
insert_labels == <<0, 0, 1>>
insert_values == <<1, 3, 5>>
sequence      == <<0, 1>>

\* lines 302-305: the mean of the exemplars of every label
class_mean(c) ==
    LET mine == {e \in 1..Len(insert_labels) : insert_labels[e] = c}
    IN  SeqSum([e \in 1..Len(insert_labels) |->
                  IF e \in mine THEN insert_values[e] ELSE 0]) \div Cardinality(mine)

Named(name) == [kind |-> "name", name |-> name, num |-> <<>>, den |-> 0]

Vector(len, den) ==
    [kind |-> "vector", name |-> "", num |-> [r \in 0..(len - 1) |-> 1], den |-> den]

\* a distribution given as a vector: uniform, not summing to 1, too long
Distributions(n) ==
    {Named("constant"), Named("increasing"), Named("decreasing"), Named("bogus"),
     Vector(n, n), Vector(n, n + 1), Vector(n + 1, n + 1)}

\* lines 277-279: the length and the sum of a vector (it is 1-dimensional)
VectorAsserted(d, n) ==
    /\ Cardinality(DOMAIN d.num) = n
    /\ ArrSum(d.num, Cardinality(DOMAIN d.num)) = d.den

Args ==
    [len_data     : 1..MaxLen,
     n_channels   : 1..MaxChannels,
     span         : 1..MaxSpan,
     n_events     : 0..MaxEvents,
     lag          : 1..MaxLag,
     jitter       : 0..MaxJitter,
     n_steps      : 0..MaxSteps,
     distribution : UNION {Distributions(n) : n \in 1..MaxLen}]

\* the content of the caller's data array
DataOf(a) == [r \in 0..(a.len_data - 1) |-> [c \in 0..(a.n_channels - 1) |-> 0]]

NoResult(e) == [status |-> e, starts |-> <<>>, events |-> <<>>, out |-> <<>>]

InitIns(calls, maxlen, maxevents) ==
    /\ arg \in {a \in Args : /\ a.distribution \in Distributions(a.len_data)
                             /\ a.len_data <= maxlen
                             /\ a.n_events <= maxevents}
    /\ ncalls = calls
    /\ elementwise_eq \in IF arg.distribution.kind = "vector" THEN BOOLEAN ELSE {TRUE}
    /\ data = 1
    /\ heap = [ref \in {1} |-> DataOf(arg)]
    /\ data_sim = None
    /\ sha1 = {}
    /\ rng = [seed |-> <<-1>>, pos |-> 0]      \* whatever the stream was before
    /\ stream = {}
    /\ p = [num |-> <<>>, den |-> 0]
    /\ i = 0 /\ start_idx = None /\ replay_start_idxs = <<>>
    /\ events = <<>> /\ idx = 0 /\ step = 0 /\ pos = 0 /\ seq_i = 0 /\ smp_jitter = 0
    /\ ipc = "start" /\ ierr = "none" /\ results = <<>>

IdleIns ==
    /\ arg = [len_data |-> 0]
    /\ ncalls = 0
    /\ elementwise_eq = TRUE
    /\ data = None /\ heap = <<>> /\ data_sim = None
    /\ sha1 = {} /\ rng = [seed |-> <<-1>>, pos |-> 0] /\ stream = {}
    /\ p = [num |-> <<>>, den |-> 0]
    /\ i = 0 /\ start_idx = None /\ replay_start_idxs = <<>>
    /\ events = <<>> /\ idx = 0 /\ step = 0 /\ pos = 0 /\ seq_i = 0 /\ smp_jitter = 0
    /\ ipc = "idle" /\ ierr = "none" /\ results = <<>>

Raise(e) ==
    /\ ipc' = "failed"
    /\ ierr' = e
    /\ results' = Append(results, NoResult(e))

(***************************************************************************)
(* insert_events, lines 269-326: checks, seeding, the initial mask.        *)
(***************************************************************************)
\* hash_array(data): the digest of the content, the same for the same content
HashChoices(content) ==
    LET hit == {m \in sha1 : m.content = content}
    IN  IF hit # {} THEN {m.digest : m \in hit} ELSE Digests

\* `distribution == 'constant'` on an array is an element-wise comparison
\* on current numpy builds (its truth value is ambiguous for more than one
\* element) and a scalar False on older ones; either way no branch of
\* lines 308-316 takes a vector.
DistributionErrors(d, n, elementwise) ==
    IF d.kind = "vector"
    THEN IF n > 1 /\ elementwise
         THEN {"ValueError: truth value of an array is ambiguous"}
         ELSE {"Exception: unknown distribution"}
    ELSE IF d.name \in {"constant", "decreasing", "increasing"} THEN {}
    ELSE {"Exception: unknown distribution"}

IESetup ==
    /\ ipc = "start"
    /\ \E dg \in HashChoices(heap[data]) :
          LET d == arg.distribution
              n == arg.len_data
          IN  \/ /\ d.kind = "vector"
                 /\ ~VectorAsserted(d, n)
                 /\ Raise("AssertionError: distribution")
                 /\ UNCHANGED <<arg, ncalls, elementwise_eq, sha1, memVars, rndVars, schedVars, injVars>>
              \/ /\ d.kind = "vector" => VectorAsserted(d, n)
                 /\ sha1' = sha1 \cup {[content |-> heap[data], digest |-> dg]}
                 /\ IF ~SeedAccepted(SeedOf(dg))
                    THEN /\ Raise("ValueError: Seed must be between 0 and 2**32 - 1")
                         /\ UNCHANGED <<arg, ncalls, elementwise_eq, memVars, rndVars, schedVars, injVars>>
                    ELSE /\ rng' = Reseed(rng, SeedOf(dg))
                         /\ \/ \E e \in DistributionErrors(d, n, elementwise_eq) :
                                  /\ Raise(e)
                                  /\ UNCHANGED <<arg, ncalls, elementwise_eq, memVars, stream, schedVars, injVars>>
                            \/ /\ DistributionErrors(d, n, elementwise_eq) = {}
                               /\ p' = ZeroAndNormalize(NamedP(d.name, n),
                                                        SliceRows(0 - padding(arg), n, n), n)
                               /\ i' = 0
                               /\ replay_start_idxs' = <<>>
                               /\ ipc' = "probe"
                               /\ UNCHANGED <<arg, ncalls, elementwise_eq, memVars, stream, start_idx, injVars,
                                              ierr, results>>

(***************************************************************************)
(* The scheduling loop, lines 330-355.                                     *)
(***************************************************************************)
\* line 331: a draw whose result is dropped
IEProbe ==
    /\ ipc = "probe"
    /\ i < arg.n_events
    /\ IF IsNaN(p)
       THEN /\ Raise("ValueError: probabilities contain NaN")
            /\ UNCHANGED <<arg, ncalls, elementwise_eq, sha1, memVars, rndVars, schedVars, injVars>>
       ELSE \E v \in Delivered(Weighted(p)) :
               /\ Drawn(Weighted(p), v)
               /\ ipc' = "select"
               /\ UNCHANGED <<arg, ncalls, elementwise_eq, sha1, memVars, schedVars, injVars, ierr, results>>

\* lines 336-355
IESelect ==
    /\ ipc = "select"
    /\ IF Cardinality(available_indices(p)) < arg.n_events - i
       THEN /\ Raise("ValueError: Not enough available indices, n_events too high")
            /\ UNCHANGED <<arg, ncalls, elementwise_eq, sha1, memVars, rndVars, schedVars, injVars>>
       ELSE \E v \in Delivered(Weighted(p)) :
               /\ Drawn(Weighted(p), v)
               /\ start_idx' = v
               /\ IF ~EndAsserted(end_idx(arg, v), arg.len_data)
                  THEN /\ Raise("AssertionError: end_idx")
                       /\ UNCHANGED <<arg, ncalls, elementwise_eq, sha1, memVars, p, i, replay_start_idxs, injVars>>
                  ELSE /\ p' = ZeroAndNormalize(p, SliceRows(v, end_idx(arg, v), arg.len_data),
                                                arg.len_data)
                       /\ replay_start_idxs' = Append(replay_start_idxs, v)
                       /\ i' = i + 1
                       /\ ipc' = "probe"
                       /\ UNCHANGED <<arg, ncalls, elementwise_eq, sha1, memVars, injVars, ierr, results>>

(***************************************************************************)
(* The insertion, lines 357-396.                                           *)
(***************************************************************************)
\* data.copy(): a new array with the same content
copy_alias(h, ref) == [heap |-> h, ref |-> ref]

copy(h, ref) ==
    LET new == (CHOOSE m \in DOMAIN h : \A o \in DOMAIN h : o <= m) + 1
    IN  [heap |-> [o \in DOMAIN h \cup {new} |-> IF o = new THEN h[ref] ELSE h[o]],
         ref  |-> new]

\* lines 357-365
IECopy ==
    /\ ipc = "probe"
    /\ i = arg.n_events
    /\ heap' = copy(heap, data).heap
    /\ data_sim' = copy(heap, data).ref
    /\ events' = <<>>
    /\ idx' = 0
    /\ ipc' = "train"
    /\ UNCHANGED <<arg, ncalls, elementwise_eq, sha1, data, rndVars, schedVars, step, pos, seq_i, smp_jitter,
                   ierr, results>>

\* lines 367-373: the next train, and where in the sequence it starts
IETrain ==
    /\ ipc = "train"
    /\ idx < Len(replay_start_idxs)
    /\ IF Len(sequence) - arg.n_steps <= 0
       THEN /\ Raise("ValueError: a must be non-empty")
            /\ UNCHANGED <<arg, ncalls, elementwise_eq, sha1, memVars, rndVars, schedVars, injVars>>
       ELSE \E v \in Delivered(Uniform(Len(sequence) - arg.n_steps, 0)) :
               /\ Drawn(Uniform(Len(sequence) - arg.n_steps, 0), v)
               /\ seq_i' = v
               /\ smp_jitter' = 0
               /\ pos' = replay_start_idxs[idx + 1]
               /\ step' = 0
               /\ ipc' = "step"
               /\ UNCHANGED <<arg, ncalls, elementwise_eq, sha1, memVars, schedVars, events, idx, ierr, results>>

\* data_sim[pos:pos+span, :] += class_mean[class_idx].T broadcasts a
\* (span, channels) block onto the rows the slice selects
Broadcasts(rows, span) == Cardinality(rows) = span \/ span = 1

AddTemplate(a, rows, val) ==
    [r \in DOMAIN a |-> IF r \in rows THEN [c \in DOMAIN a[r] |-> a[r][c] + val] ELSE a[r]]

\* lines 374-390: one step of the train
IEStep ==
    /\ ipc = "step"
    /\ LET class_idx == sequence[seq_i + 1]
           rows      == SliceRows(pos, pos + arg.span, arg.len_data)
           last      == step = arg.n_steps
       IN  IF ~Broadcasts(rows, arg.span)
           THEN /\ Raise("ValueError: operands could not be broadcast together")
                /\ UNCHANGED <<arg, ncalls, elementwise_eq, sha1, memVars, rndVars, schedVars, injVars>>
           ELSE /\ heap' = [heap EXCEPT ![data_sim] = AddTemplate(@, rows, class_mean(class_idx))]
                /\ events' = Append(events,
                                    [idx |-> idx, pos |-> pos, step |-> step,
                                     class_idx |-> class_idx, span |-> arg.span,
                                     jitter |-> smp_jitter])
                /\ \/ /\ arg.jitter = 0
                      /\ smp_jitter' = 0
                      /\ pos' = pos + arg.lag
                      /\ UNCHANGED rndVars
                   \/ /\ arg.jitter # 0
                      /\ \E v \in Delivered(Uniform(2 * arg.jitter + 1, 0 - arg.jitter)) :
                            /\ Drawn(Uniform(2 * arg.jitter + 1, 0 - arg.jitter), v)
                            /\ smp_jitter' = v
                            /\ pos' = pos + arg.lag + v
                /\ seq_i' = seq_i + 1
                /\ step' = IF last THEN 0 ELSE step + 1
                /\ idx' = IF last THEN idx + 1 ELSE idx
                /\ ipc' = IF last THEN "train" ELSE "step"
                /\ UNCHANGED <<arg, ncalls, elementwise_eq, sha1, data, data_sim, schedVars, ierr, results>>

\* lines 392-396
IEReturn ==
    /\ ipc = "train"
    /\ idx = Len(replay_start_idxs)
    /\ results' = Append(results, [status |-> "ok", starts |-> replay_start_idxs,
                                   events |-> events, out |-> heap[data_sim]])
    /\ ipc' = "returned"
    /\ UNCHANGED <<arg, ncalls, elementwise_eq, sha1, memVars, rndVars, schedVars, injVars, ierr>>

\* the caller invokes insert_events again on the same data with the same
\* parameters; the RNG stream is left as the previous call left it
IECallAgain ==
    /\ ipc \in {"returned", "failed"}
    /\ Len(results) < ncalls
    /\ heap' = [ref \in {data} |-> heap[data]]
    /\ data_sim' = None
    /\ p' = [num |-> <<>>, den |-> 0]
    /\ i' = 0 /\ start_idx' = None /\ replay_start_idxs' = <<>>
    /\ events' = <<>> /\ idx' = 0 /\ step' = 0 /\ pos' = 0 /\ seq_i' = 0 /\ smp_jitter' = 0
    /\ ipc' = "start" /\ ierr' = "none"
    /\ UNCHANGED <<arg, ncalls, elementwise_eq, sha1, data, rndVars, results>>

otherThanIns == <<permVars, countVars>>

\* one call of insert_events
Next ==
    \/ IESetup     /\ UNCHANGED otherThanIns
    \/ IEProbe     /\ UNCHANGED otherThanIns
    \/ IESelect    /\ UNCHANGED otherThanIns
    \/ IECopy      /\ UNCHANGED otherThanIns
    \/ IETrain     /\ UNCHANGED otherThanIns
    \/ IEStep      /\ UNCHANGED otherThanIns
    \/ IEReturn    /\ UNCHANGED otherThanIns

\* repeated calls with the same arguments
NextRepeat ==
    \/ IESetup     /\ UNCHANGED otherThanIns
    \/ IEProbe     /\ UNCHANGED otherThanIns
    \/ IESelect    /\ UNCHANGED otherThanIns
    \/ IECopy      /\ UNCHANGED otherThanIns
    \/ IETrain     /\ UNCHANGED otherThanIns
    \/ IEStep      /\ UNCHANGED otherThanIns
    \/ IEReturn    /\ UNCHANGED otherThanIns
    \/ IECallAgain /\ UNCHANGED otherThanIns

vars == <<permVars, countVars, insVars>>

Init == InitIns(1, MaxLen, MaxEvents) /\ IdlePerm /\ IdleCount

Spec == Init /\ [][Next]_vars

InitRepeat == InitIns(MaxCalls, MaxLenRepeat, MaxEventsRepeat) /\ IdlePerm /\ IdleCount

SpecRepeat == InitRepeat /\ [][NextRepeat]_vars

otherThanPerm == <<countVars, insVars>>

NextPermSpec ==
    \/ UPSetup     /\ UNCHANGED otherThanPerm
    \/ UPDraw      /\ UNCHANGED otherThanPerm
    \/ UPConstruct /\ UNCHANGED otherThanPerm

InitPermSpec == InitPerm /\ IdleCount /\ IdleIns

SpecPerm == InitPermSpec /\ [][NextPermSpec]_vars

\* once in the loop the interpreter keeps iterating, and a fair RNG eventually
\* delivers a permutation that the loop can accept whenever there is one
FairSpecPerm ==
    SpecPerm /\ WF_vars((UPDraw \/ UPConstruct) /\ UNCHANGED <<countVars, insVars>>)

NextCount == CountPerms /\ UNCHANGED <<permVars, insVars>>

InitCountSpec == InitCount /\ IdlePerm /\ IdleIns

SpecCount == InitCountSpec /\ [][NextCount]_vars

(***************************************************************************)
(* Claims about insert_events.                                             *)
(***************************************************************************)
footprint == arg.n_steps * arg.lag + arg.span

LoopCompleted == ipc \in {"train", "step", "returned"}

\* C1: whenever the scheduling loop completes, any two distinct chosen
\* start offsets have disjoint intervals [start, start + footprint).
C1_Disjoint ==
    LoopCompleted =>
        \A a, b \in 1..Len(replay_start_idxs) :
            a # b => \/ replay_start_idxs[a] + footprint <= replay_start_idxs[b]
                     \/ replay_start_idxs[b] + footprint <= replay_start_idxs[a]

LoopErrors ==
    {"ValueError: probabilities contain NaN",
     "ValueError: Not enough available indices, n_events too high",
     "AssertionError: end_idx"}

\* C5: whenever at the start of a scheduling iteration fewer positions have
\* nonzero probability than events remain to be placed, the call fails with
\* the "not enough available indices, n_events too high" error before any
\* other failure, and returns nothing; every successful call has placed
\* exactly n_events trains.
C5_FailsDescriptively ==
    /\ (ipc = "failed" /\ ierr \in LoopErrors
           /\ Cardinality(available_indices(p)) < arg.n_events - i)
       => /\ ierr = "ValueError: Not enough available indices, n_events too high"
          /\ results[Len(results)] = NoResult(ierr)
    /\ (ipc = "select" /\ Cardinality(available_indices(p)) < arg.n_events - i)
       => ~ENABLED (IESelect /\ ipc' # "failed")
    /\ ipc = "returned" => Len(replay_start_idxs) = arg.n_events

DistributionFailures ==
    {"ValueError: truth value of an array is ambiguous",
     "Exception: unknown distribution",
     "AssertionError: distribution"}

\* C6: a distribution given as a one-dimensional nonnegative vector of
\* length len(data) that sums to 1 does not make the call fail on the
\* distribution.
C6_VectorAccepted ==
    (/\ arg.distribution.kind = "vector"
     /\ VectorAsserted(arg.distribution, arg.len_data)
     /\ \A r \in DOMAIN arg.distribution.num : arg.distribution.num[r] >= 0)
    => ierr \notin DistributionFailures

\* C7: every accepted start satisfies start + footprint <= data_length, so
\* with jitter = 0 every template application (start + s*lag, span samples)
\* lies inside [0, data_length); a start whose end index would reach the
\* series length is not accepted but makes the call fail.
C7_WithinData ==
    /\ \A a \in 1..Len(replay_start_idxs) :
          replay_start_idxs[a] + footprint <= arg.len_data
    /\ arg.jitter = 0 =>
          \A e \in 1..Len(events) :
             /\ events[e].pos = replay_start_idxs[events[e].idx + 1]
                                   + events[e].step * arg.lag
             /\ 0 <= events[e].pos
             /\ events[e].pos + arg.span <= arg.len_data
    /\ (start_idx # None /\ end_idx(arg, start_idx) >= arg.len_data)
          => /\ ipc = "failed"
             /\ ierr = "AssertionError: end_idx"
             /\ \A a \in 1..Len(replay_start_idxs) : replay_start_idxs[a] # start_idx

C7_Witness ==
    /\ ipc = "returned" /\ arg.jitter = 0 /\ arg.n_steps >= 1
    /\ Len(replay_start_idxs) >= 2
    /\ Len(events) = 2 * (arg.n_steps + 1)

\* C8: two invocations with identical data and identical parameters give
\* identical start offsets, onset tables and output arrays (or fail alike),
\* whatever the state of the shared RNG stream before each call.
C8_Deterministic ==
    /\ \A a, b \in 1..Len(results) : results[a] = results[b]
    /\ (/\ Len(results) >= 1
        /\ results[1].status = "ok"
        /\ ipc \in {"probe", "select", "train", "step"})
       => /\ Len(replay_start_idxs) <= Len(results[1].starts)
          /\ replay_start_idxs = SubSeq(results[1].starts, 1, Len(replay_start_idxs))
          /\ Len(events) <= Len(results[1].events)
          /\ events = SubSeq(results[1].events, 1, Len(events))

C8_Witness ==
    /\ Len(results) = 2
    /\ results[2].status = "ok"
    /\ Len(results[2].starts) >= 1
    /\ \E e \in 1..Len(results[2].events) : results[2].events[e].jitter # 0

\* C9: insert_events never mutates its input: after any call the caller's
\* data holds the values it held before, the templates being added to a
\* private copy, and on success the returned array has the shape of data.
C9_InputUntouched ==
    /\ heap[data] = DataOf(arg)
    /\ data_sim # None => data_sim # data
    /\ ipc = "returned" =>
          /\ DOMAIN results[Len(results)].out = DOMAIN DataOf(arg)
          /\ \A r \in DOMAIN DataOf(arg) :
                DOMAIN results[Len(results)].out[r] = DOMAIN DataOf(arg)[r]

C9_Witness ==
    /\ ipc = "returned"
    /\ Len(events) >= 1
    /\ heap[data_sim] # heap[data]
    /\ heap[data] = DataOf(arg)

\* C10: before the first start offset is drawn the mask p is zero at every
\* index i >= data_length - footprint, with footprint = n_steps*lag + span,
\* for every combination of channel count and template span.
C10_TailZero ==
    (ipc = "probe" /\ i = 0) =>
        \A r \in 0..(arg.len_data - 1) :
            r >= arg.len_data - footprint => r \notin available_indices(p)

(***************************************************************************)
(* Claims about unique_permutations.                                       *)
(***************************************************************************)
Distinct(M, rows) == \A r1, r2 \in 1..rows : M[r1] = M[r2] => r1 = r2

\* C2: after every iteration of the rejection loop the accepted coded rows
\* (row 0 = x, rows 1..u = x[pInd]) are pairwise distinct, also when X has
\* repeated values; hence the k returned permutations of X are pairwise
\* distinct orderings.
C2_DistinctRows ==
    /\ upc = "loop" => Distinct(Perms, u + 1)
    /\ upc = "done" => /\ Len(PermsOut) = k
                       /\ Distinct(Perms, k)
                       /\ Distinct(PermsOut, k)

C2_Witness ==
    /\ upc = "done" /\ k >= 3 /\ u = k - 1
    /\ \E ix, j \in 1..Len(X) : ix # j /\ X[ix] = X[j]

\* C3: nPerms equals n! / (c_1! * ... * c_m!), the number of distinct
\* orderings of X, for every X with n > 1.
C3_CountIsMultinomial == cpc = "counted" => count = Multinomial(cX)

\* C4: under a fair RNG the rejection loop terminates for every input and
\* every requested k.
C4_Terminates == (upc = "loop") ~> (upc = "done")

\* C4, the reason: while fewer than k rows are accepted some permutation's
\* coding passes the membership test against the stored rows, all-zero
\* placeholder rows included.
C4_SomeDrawAccepted ==
    (upc = "loop" /\ u < k - 1) =>
        \E pInd \in PermutationsOf(Len(X)) : IsNewRow(Take(x, pInd), Perms)

C4_Witness == upc = "done" /\ kReq # None /\ kReq > nPerms /\ k = nPerms /\ u >= 1

=============================================================================
